---- MODULE Spec2Model ----
(***************************************************************************)
(* A model of the go-flags feature-flag client: the two cache backends     *)
(* (cache.Memory, cache.System), the circuit-breaker guarded refresh       *)
(* cycle of Client.refreshCache, the environment override resolver and     *)
(* Client.isEnabled, called by concurrent goroutines.                      *)
(*                                                                         *)
(* Time is in whole seconds (time.Now().Unix()).  Strings that the code    *)
(* transforms (flag names, environment variable names) are sequences of    *)
(* one-character strings, so that prefix stripping, lower-casing and       *)
(* character replacement are computed, not assumed.                        *)
(***************************************************************************)
EXTENDS Integers, Sequences, FiniteSets, TLC

(***************************************************************************)
(* Bounds of the model.                                                    *)
(***************************************************************************)
\* number of goroutines calling Is(name).Enabled() on the one client
NumProcs == 2
\* seconds that pass one by one after the client is constructed
MaxElapsed == 2
\* calls the host makes on a second client of the same process
MaxOtherCalls == 2

(***************************************************************************)
(* Program constants.                                                      *)
(***************************************************************************)
\* const maxRetries = 3
DefaultMaxRetries == 3
\* const baseURL
DefaultBaseURL == "https://api.flags.gg/v1"
\* customURL and customRetries of TestNewClientWithOptions
CustomURL == "https://custom.flags.gg"
CustomRetries == 5
\* time.Since(c.circuitState.lastFailure) < 10*time.Second
Cooldown == 10
\* Memory.Init: m.cacheTTL = 60
MemoryInitTTL == 60
\* Memory.Init: time.Now().Add(time.Duration(-90) * time.Second)
MemoryInitOffset == 90
\* time.Now().Unix() when the client is constructed: any instant of the
\* present, which is far larger than every interval the program handles
Epoch == 10000

Procs == 1..NumProcs
MaxClock == Epoch + MaxElapsed
\* the last instant a cooldown that the model follows to its end ends
Horizon == MaxClock + Cooldown

(***************************************************************************)
(* Strings.                                                                *)
(***************************************************************************)
\* strings.ToLower on one character
ToLowerChar(c) ==
    CASE c = "A" -> "a"
      [] c = "B" -> "b"
      [] c = "C" -> "c"
      [] c = "F" -> "f"
      [] c = "G" -> "g"
      [] c = "L" -> "l"
      [] c = "S" -> "s"
      [] OTHER -> c

ToLower(s) == [i \in 1..Len(s) |-> ToLowerChar(s[i])]

HasPrefix(s, pre) == Len(s) >= Len(pre) /\ SubSeq(s, 1, Len(pre)) = pre

TrimPrefix(s, pre) == IF HasPrefix(s, pre) THEN SubSeq(s, Len(pre) + 1, Len(s)) ELSE s

ReplaceAll(s, old, new) == [i \in 1..Len(s) |-> IF s[i] = old THEN new ELSE s[i]]

\* the environment variable prefix "FLAGS_"
EnvPrefix == <<"F", "L", "A", "G", "S", "_">>

\* flag names, as the caller and the remote authority spell them
NameUnderscore == <<"a", "_", "b">>
NameHyphen == <<"a", "-", "b">>
NameSpace == <<"a", " ", "b">>
NameOther == <<"c">>
NameMissing == <<"z">>

QueryNames == {NameUnderscore, NameHyphen, NameSpace, NameOther, NameMissing}
\* the names that tell the cache's answers apart: two the remote authority
\* serves and one it never does
CacheNames == {NameHyphen, NameOther, NameMissing}

\* environment variable names
VarAB == <<"F", "L", "A", "G", "S", "_", "A", "_", "B">>
VarUnprefixed == <<"A", "_", "B">>

\* the environments the client is run in: a map from variable name to value
NoEnv == [v \in {} |-> ""]
EnvChoices ==
    { NoEnv,
      (VarAB :> "true"),
      (VarAB :> "false"),
      (VarAB :> "TRUE"),
      (VarUnprefixed :> "true") }

(***************************************************************************)
(* Override Resolver (spec 4.4): the table built from the environment.     *)
(***************************************************************************)
\* a resolver that registers no space-separated key
OverrideKeysNoSpace(v) ==
    LET key == ToLower(TrimPrefix(v, EnvPrefix))
    IN  {key, ReplaceAll(key, "_", "-")}

\* the three keys one prefixed variable registers
OverrideKeys(v) ==
    LET key == ToLower(TrimPrefix(v, EnvPrefix))
    IN  {key, ReplaceAll(key, "_", "-"), ReplaceAll(key, "_", " ")}

PrefixedVars(e) == {v \in DOMAIN e : HasPrefix(v, EnvPrefix)}

\* name -> boolean, true iff the variable's value is the literal "true"
OverrideTable(e) ==
    [k \in UNION {OverrideKeys(v) : v \in PrefixedVars(e)} |->
        LET v == CHOOSE w \in PrefixedVars(e) : k \in OverrideKeys(w)
        IN  e[v] = "true"]

(***************************************************************************)
(* The remote authority: the responses GET /flags may return.              *)
(***************************************************************************)
FF(n, b) == [name |-> n, enabled |-> b]

Responses ==
    << [flags |-> <<FF(NameHyphen, TRUE), FF(NameOther, FALSE)>>, interval |-> 1],
       [flags |-> <<FF(NameHyphen, FALSE)>>, interval |-> 1],
       [flags |-> <<FF(NameOther, TRUE), FF(NameOther, TRUE)>>, interval |-> 1],
       [flags |-> <<FF(NameOther, TRUE)>>, interval |-> 1] >>

NoResp == 0

\* what one request can end in
FetchOutcomes == {"ok", "transport", "status", "decode"}

\* the record set a response stands for: name -> enabled, a later entry of
\* the list replacing an earlier one of the same name
RECURSIVE AsMap(_, _)
AsMap(flags, n) ==
    IF n = 0 THEN [x \in {} |-> FALSE]
    ELSE (flags[n].name :> flags[n].enabled) @@ AsMap(flags, n - 1)

RecordsOf(r) == AsMap(Responses[r].flags, Len(Responses[r].flags))

VARIABLES
    backend,        \* "memory" (WithMemory) or "system" (the sqlite file)
    maxRetries,     \* Client.maxRetries
    baseURL,        \* Client.baseURL
    opts,           \* the options the host program gave NewClient
    authOK,         \* Client.auth has its three identifiers
    env,            \* the process environment
    callers,        \* the goroutines the host program runs
    names,          \* the flag names the host program asks for
    clients,        \* the clients the host program has constructed: 1 or 2
    other,          \* the second client: its breaker, its Memory, its calls
    now,            \* the wall clock, seconds
    isOpen,         \* Client.circuitState.isOpen
    failureCount,   \* Client.circuitState.failureCount
    lastFailure,    \* Client.circuitState.lastFailure
    memFlags,       \* Memory.Flags: name -> enabled
    memTTL,         \* Memory.cacheTTL
    memNextRefresh, \* Memory.nextRefresh
    memMu,          \* Memory.mu: 0 when free, else the goroutine holding it
    rows,           \* table flags, committed: name -> [enabled, updated_at]
    meta,           \* table cache_metadata, committed: key -> value
    wlock,          \* sqlite's write lock: 0 free, p held by p's transaction,
                    \* Leaked held by a transaction nobody will ever end
    dbOpen,         \* System.DB has not been closed
    pc,             \* where each goroutine is
    qname,          \* the name it asked for
    retry,          \* refreshCache's loop variable
    resp,           \* apiResp: an index of Responses, or NoResp
    idx,            \* the next entry of apiResp.Flags to store
    txRows,         \* rows inserted by its open transaction
    txNow,          \* System.Refresh's now
    wake,           \* when its time.Sleep ends
    result,         \* what Enabled() returned
    got,            \* what the host's last GetAll on the cache came to
    \* history, read by the properties only
    fetchedNames,   \* the names of every response fetched so far
    lastGood,       \* the response of the last Refresh that returned nil
    atStart,        \* the cache's records and deadline when the call started
    dirty,          \* another goroutine wrote the cache since the call started
    entered,        \* how refreshCache found the breaker
    fetches,        \* fetchFlags calls of the call's refresh cycle
    outcome         \* how the call's refresh cycle ended: "none", "suppressed",
                    \* the kind of its last fetch failure, "exhausted", "stored"
                    \* or "storeErr"

config == <<backend, maxRetries, baseURL, opts, authOK, env, callers, names, clients>>
breaker == <<isOpen, failureCount, lastFailure>>
memory == <<memFlags, memTTL, memNextRefresh, memMu>>
system == <<rows, meta, wlock, dbOpen>>
locals == <<pc, qname, retry, resp, idx, txRows, txNow, wake, result, got>>
history == <<fetchedNames, lastGood, atStart, dirty, entered, fetches, outcome>>
vars == <<config, other, now, breaker, memory, system, locals, history>>

Leaked == -1
NoRows == [x \in {} |-> [enabled |-> FALSE, updated_at |-> 0]]
NoMeta == [x \in {} |-> [kind |-> "integer", int |-> 0, text |-> << >>]]
NoFlags == [x \in {} |-> FALSE]
\* no GetAll since the last call
NoGot == [called |-> FALSE, panic |-> FALSE, err |-> FALSE, flags |-> NoFlags]

\* column value TEXT of cache_metadata: an integer bound by Refresh, which
\* stands for its decimal text, or a text
IntegerValue(n) == [kind |-> "integer", int |-> n, text |-> << >>]

TextValue(t) == [kind |-> "text", int |-> 0, text |-> t]

Digits == <<"0", "1", "2", "3", "4", "5", "6", "7", "8", "9">>

IsDigit(c) == \E d \in 1..10 : Digits[d] = c

DigitOf(c) == (CHOOSE d \in 1..10 : Digits[d] = c) - 1

\* sqlite's CAST(text AS INTEGER): the longest prefix of digits, 0 with none
RECURSIVE NumericPrefix(_, _, _)
NumericPrefix(t, i, acc) ==
    IF i > Len(t) \/ ~IsDigit(t[i]) THEN acc
    ELSE NumericPrefix(t, i + 1, acc * 10 + DigitOf(t[i]))

\* CAST(value AS INTEGER)
CastInteger(v) == IF v.kind = "integer" THEN v.int ELSE NumericPrefix(v.text, 1, 0)

TwoDigits(n) == <<Digits[(n \div 10) + 1], Digits[(n % 10) + 1]>>

\* t.Format(time.RFC3339) in UTC, for the times of the first day of 1970
FormatRFC3339(t) ==
    <<"1", "9", "7", "0", "-", "0", "1", "-", "0", "1", "T">>
    \o TwoDigits(t \div 3600) \o <<":">> \o TwoDigits((t % 3600) \div 60)
    \o <<":">> \o TwoDigits(t % 60) \o <<"Z">>

(***************************************************************************)
(* cache.Memory                                                            *)
(***************************************************************************)
\* a Get that finds nothing once the deadline has passed
MemoryGetUnexpired(name) ==
    IF name \in DOMAIN memFlags /\ now <= memNextRefresh
    THEN [enabled |-> memFlags[name], found |-> TRUE]
    ELSE [enabled |-> FALSE, found |-> FALSE]

\* Memory.Get: a sync.Map load, under no lock
MemoryGet(name) ==
    IF name \in DOMAIN memFlags
    THEN [enabled |-> memFlags[name], found |-> TRUE]
    ELSE [enabled |-> FALSE, found |-> FALSE]

\* Memory.GetAll: Range over the map, asserting value.(bool) on each value;
\* Refresh stores flag.FeatureFlag values, so the assertion panics on the
\* first entry
MemoryGetAll ==
    IF memFlags = NoFlags
    THEN [called |-> TRUE, panic |-> FALSE, err |-> FALSE, flags |-> NoFlags]
    ELSE [called |-> TRUE, panic |-> TRUE, err |-> FALSE, flags |-> NoFlags]

\* a ShouldRefreshCache that is already true at the deadline
MemoryShouldRefreshAtDeadline == now >= memNextRefresh

\* Memory.ShouldRefreshCache, evaluated with m.mu held
MemoryShouldRefreshCache == now > memNextRefresh

(***************************************************************************)
(* cache.System                                                            *)
(***************************************************************************)
\* a ShouldRefreshCache that answers false when it cannot read the deadline
SystemShouldRefreshFailsClosed ==
    /\ dbOpen
    /\ "next_refresh_time" \in DOMAIN meta
    /\ meta["next_refresh_time"].kind = "integer"
    /\ now > meta["next_refresh_time"].int

\* a ShouldRefreshCache that asks for a refresh on every call
SystemShouldRefreshAlways == TRUE

\* System.ShouldRefreshCache: true when the metadata row cannot be read
SystemShouldRefreshCache ==
    IF ~dbOpen \/ "next_refresh_time" \notin DOMAIN meta
    THEN TRUE
    ELSE now > CastInteger(meta["next_refresh_time"])

\* System.Get: SELECT enabled FROM flags WHERE name = $1 AND updated_at >
\* (SELECT value FROM cache_metadata WHERE key = 'cache_ttl'); no row, or a
\* NULL subquery, scans nothing and is reported as not found
SystemGet(name) ==
    IF /\ dbOpen
       /\ name \in DOMAIN rows
       /\ "cache_ttl" \in DOMAIN meta
       /\ rows[name].updated_at > CastInteger(meta["cache_ttl"])
    THEN [enabled |-> rows[name].enabled, found |-> TRUE]
    ELSE [enabled |-> FALSE, found |-> FALSE]

\* System.GetAll: SELECT name, enabled FROM flags, every row; a closed
\* handle fails the query
SystemGetAll ==
    IF dbOpen
    THEN [called |-> TRUE, panic |-> FALSE, err |-> FALSE,
          flags |-> [n \in DOMAIN rows |-> rows[n].enabled]]
    ELSE [called |-> TRUE, panic |-> FALSE, err |-> TRUE, flags |-> NoFlags]

(***************************************************************************)
(* Client                                                                  *)
(***************************************************************************)
\* the Cache Store the client was constructed with
CacheGet(name) == IF backend = "memory" THEN MemoryGet(name) ELSE SystemGet(name)

CacheShouldRefresh ==
    IF backend = "memory" THEN MemoryShouldRefreshCache ELSE SystemShouldRefreshCache

\* a checkCache that asks the cache first
CheckCacheCacheFirst(name) ==
    LET table == OverrideTable(env)
        c == CacheGet(name)
    IN  IF c.found THEN c
        ELSE IF name \in DOMAIN table
             THEN [enabled |-> table[name], found |-> TRUE]
             ELSE c

\* Client.checkCache: an override decides, else the cache
CheckCache(name) ==
    LET table == OverrideTable(env)
    IN  IF name \in DOMAIN table
        THEN [enabled |-> table[name], found |-> TRUE]
        ELSE CacheGet(name)

\* an isEnabled that answers true for a name it does not find
IsEnabledDefaultTrue(name) ==
    LET c == CheckCache(name)
    IN  IF ~c.found THEN TRUE ELSE c.enabled

\* the tail of Client.isEnabled: if !exists { return false }; return enabled
IsEnabledResult(name) ==
    LET c == CheckCache(name)
    IN  IF ~c.found THEN FALSE ELSE c.enabled

\* Client.fetchFlags: the credentials are checked before the request is sent;
\* a transport error, a status other than 200 and an undecodable body are
\* all an error
FetchFlags(o, r) ==
    IF ~authOK
    THEN [err |-> TRUE, resp |-> NoResp, sent |-> FALSE, kind |-> "credentials"]
    ELSE IF o = "ok"
         THEN [err |-> FALSE, resp |-> r, sent |-> TRUE, kind |-> "ok"]
         ELSE [err |-> TRUE, resp |-> NoResp, sent |-> TRUE, kind |-> o]

\* a breaker that lets every cycle through
BreakerBlocksNever == FALSE

\* a breaker that still blocks at the instant the cooldown has elapsed
BreakerBlocksInclusive == isOpen /\ now - lastFailure <= Cooldown

\* an open breaker that no cooldown ends
BreakerBlocksForever == isOpen

\* refreshCache: if c.circuitState.isOpen && time.Since(lastFailure) < 10s
BreakerBlocks == isOpen /\ now - lastFailure < Cooldown

\* refreshCache: c.circuitState.failureCount >= c.maxRetries, after the ++
BreakerTrips == failureCount + 1 >= maxRetries

\* a Refresh that returns with the mutex held
MemoryKeepsLock(p) == p

\* Memory.Refresh: defer m.mu.Unlock() leaves the mutex free
MemoryUnlock(p) == 0

\* the records a reader of the cache can get, without the time stamps
VisibleRecs ==
    IF backend = "memory" THEN memFlags
    ELSE [n \in {m \in DOMAIN rows : SystemGet(m).found} |-> rows[n].enabled]

\* the deadline a reader of the cache can get; 0 stands for no metadata row
VisibleDeadline ==
    IF backend = "memory" THEN memNextRefresh
    ELSE IF dbOpen /\ "next_refresh_time" \in DOMAIN meta
         THEN CastInteger(meta["next_refresh_time"]) ELSE 0

\* the goroutines that are inside Refresh, writing
Writing == {q \in Procs : pc[q] \in {"mstore", "sinsert"}}

NoStart == [recs |-> NoFlags, deadline |-> 0]

\* history: goroutine p has written the cache under the calls in progress
Touch(p) == [q \in Procs |-> IF q # p /\ pc[q] # "idle" THEN TRUE ELSE dirty[q]]

\* an option that leaves the client as it is
WithMaxRetriesDropped(c, n) == c

\* WithBaseURL and WithMaxRetries: the functions NewClient applies
WithBaseURL(c, u) == [c EXCEPT !.baseURL = u]

WithMaxRetries(c, n) == [c EXCEPT !.maxRetries = n]

\* NewClient: the client with the package defaults, then the options in the
\* order given
RECURSIVE ApplyOptions(_, _, _)
ApplyOptions(c, os, i) ==
    IF i > Len(os) THEN c
    ELSE ApplyOptions(IF os[i].kind = "WithBaseURL"
                      THEN WithBaseURL(c, os[i].value)
                      ELSE WithMaxRetries(c, os[i].value), os, i + 1)

NewClient(os) ==
    ApplyOptions([baseURL |-> DefaultBaseURL, maxRetries |-> DefaultMaxRetries], os, 1)

NoOptions == << >>
\* the options of TestNewClientWithOptions
CustomOptions == <<[kind |-> "WithBaseURL", value |-> CustomURL],
                   [kind |-> "WithMaxRetries", value |-> CustomRetries]>>
\* WithMaxRetries(1), one attempt a cycle, and WithMaxRetries(0), none
OneAttemptOptions == <<[kind |-> "WithMaxRetries", value |-> 1]>>
NoAttemptOptions == <<[kind |-> "WithMaxRetries", value |-> 0]>>
\* WithMaxRetries(-1)
NegativeAttemptOptions == <<[kind |-> "WithMaxRetries", value |-> -1]>>

\* the second client before its first call: NewClient, Memory.Init
NoOther ==
    [calls |-> 0, isOpen |-> FALSE, failureCount |-> 0, lastFailure |-> 0,
     flags |-> NoFlags, nextRefresh |-> Epoch - MemoryInitOffset]

\* the responses without a repeated name, which the second client fetches
OtherResponses == {r \in 1..Len(Responses) : Len(Responses[r].flags) = Cardinality(DOMAIN RecordsOf(r))}

\* the seconds refreshCache sleeps in a cycle of n failed attempts
SleepTotal(n) == IF n <= 1 THEN 0 ELSE (n * (n - 1)) \div 2

\* the second client's cache as its own Get and ShouldRefreshCache read it,
\* through its own handle
OtherRecs ==
    IF backend = "memory" THEN other.flags
    ELSE [n \in {m \in DOMAIN rows :
                    /\ "cache_ttl" \in DOMAIN meta
                    /\ rows[m].updated_at > CastInteger(meta["cache_ttl"])} |-> rows[n].enabled]

OtherDeadline ==
    IF backend = "memory" THEN other.nextRefresh
    ELSE IF "next_refresh_time" \in DOMAIN meta
         THEN CastInteger(meta["next_refresh_time"]) ELSE 0

OtherShouldRefresh == now > OtherDeadline

\* the database file an earlier process has left: the rows and metadata of
\* its last refresh, of response r at Epoch, written by cache.System or by
\* the client that keeps its own tables and stores the deadline as RFC3339
\* text with no cache_ttl
FileRows(r) ==
    IF r = NoResp THEN NoRows
    ELSE [n \in DOMAIN RecordsOf(r) |-> [enabled |-> RecordsOf(r)[n], updated_at |-> Epoch]]

FileMeta(r, writer) ==
    IF r = NoResp THEN NoMeta
    ELSE IF writer = "inline"
    THEN ("next_refresh_time" :> TextValue(FormatRFC3339(Epoch + Responses[r].interval)))
    ELSE ("next_refresh_time" :> IntegerValue(Epoch + Responses[r].interval))
         @@ ("cache_ttl" :> IntegerValue(Responses[r].interval))

\* The host programs: goroutines calling concurrently with no override in
\* the environment, one goroutine under each environment, one goroutine
\* of a process that finds the database file of an earlier process, one
\* whose client has options, and one that has constructed two clients.
Scenarios ==
    {[env |-> NoEnv, callers |-> Procs, names |-> CacheNames, file |-> NoResp,
      writer |-> "system", opts |-> NoOptions, clients |-> 1]}
    \cup {[env |-> e, callers |-> {1}, names |-> QueryNames, file |-> NoResp,
            writer |-> "system", opts |-> NoOptions, clients |-> 1] : e \in EnvChoices}
    \cup {[env |-> NoEnv, callers |-> {1}, names |-> CacheNames, file |-> 1,
            writer |-> w, opts |-> NoOptions, clients |-> 1] : w \in {"system", "inline"}}
    \cup {[env |-> NoEnv, callers |-> {1}, names |-> CacheNames, file |-> NoResp,
            writer |-> "system", opts |-> o, clients |-> 1] :
                o \in {CustomOptions, OneAttemptOptions, NoAttemptOptions,
                        NegativeAttemptOptions}}
    \cup {[env |-> NoEnv, callers |-> {1}, names |-> CacheNames, file |-> 1,
            writer |-> "system", opts |-> NoAttemptOptions, clients |-> 1]}
    \cup {[env |-> NoEnv, callers |-> {1}, names |-> CacheNames, file |-> NoResp,
            writer |-> "system", opts |-> NoOptions, clients |-> 2]}

Init ==
    /\ backend \in {"memory", "system"}
    /\ authOK \in BOOLEAN
    /\ \E sc \in Scenarios :
        /\ opts = sc.opts
        /\ clients = sc.clients
        /\ baseURL = NewClient(sc.opts).baseURL
        /\ maxRetries = NewClient(sc.opts).maxRetries
        /\ env = sc.env
        /\ callers = sc.callers
        /\ names = sc.names
        /\ sc.file # NoResp => backend = "system"
        /\ rows = FileRows(sc.file)
        /\ meta = FileMeta(sc.file, sc.writer)
        /\ lastGood = sc.file
        /\ fetchedNames = DOMAIN FileRows(sc.file)
    /\ other = NoOther
    /\ now = Epoch
    /\ isOpen = FALSE
    /\ failureCount = 0
    /\ lastFailure = 0
    /\ memFlags = NoFlags
    /\ memTTL = MemoryInitTTL
    /\ memNextRefresh = Epoch - MemoryInitOffset
    /\ memMu = 0
    /\ wlock = 0
    /\ dbOpen = TRUE
    /\ pc = [p \in Procs |-> "idle"]
    /\ qname = [p \in Procs |-> NameMissing]
    /\ retry = [p \in Procs |-> 0]
    /\ resp = [p \in Procs |-> NoResp]
    /\ idx = [p \in Procs |-> 0]
    /\ txRows = [p \in Procs |-> NoRows]
    /\ txNow = [p \in Procs |-> 0]
    /\ wake = [p \in Procs |-> 0]
    /\ result = [p \in Procs |-> FALSE]
    /\ got = NoGot
    /\ atStart = [p \in Procs |-> NoStart]
    /\ dirty = [p \in Procs |-> FALSE]
    /\ entered = [p \in Procs |-> "no"]
    /\ fetches = [p \in Procs |-> 0]
    /\ outcome = [p \in Procs |-> "none"]

\* the goroutines that call again when a call has returned; the others
\* call once
Pollers == {1}

\* Flag.Enabled: a goroutine calls c.isEnabled(f.Name).  The name is read
\* by checkCache alone, so the model draws it there (Lookup).  No call is
\* started after MaxClock, but for the calls that meet an open breaker
\* around the end of its cooldown.
Call(p) ==
    /\ p \in callers
    /\ pc[p] = "idle" \/ (pc[p] = "done" /\ p \in Pollers)
    /\ ~got.panic
    /\ \/ now <= MaxClock
       \/ isOpen /\ now - lastFailure >= Cooldown - 1
    /\ pc' = [pc EXCEPT ![p] = "should"]
    /\ qname' = [qname EXCEPT ![p] = NameMissing]
    /\ result' = [result EXCEPT ![p] = FALSE]
    /\ got' = NoGot
    /\ atStart' = [atStart EXCEPT ![p] = [recs |-> VisibleRecs, deadline |-> VisibleDeadline]]
    /\ dirty' = [dirty EXCEPT ![p] = FALSE]
    /\ entered' = [entered EXCEPT ![p] = "no"]
    /\ fetches' = [fetches EXCEPT ![p] = 0]
    /\ outcome' = [outcome EXCEPT ![p] = "none"]
    /\ UNCHANGED <<config, other, now, breaker, memory, system,
                   retry, resp, idx, txRows, txNow, wake, fetchedNames, lastGood>>

\* isEnabled: if c.shouldRefreshCache() { c.refreshCache() }.  The memory
\* backend takes m.mu for the read, so it waits while a Refresh holds it.
ShouldRefresh(p) ==
    /\ pc[p] = "should"
    /\ backend = "memory" => memMu = 0
    /\ pc' = [pc EXCEPT ![p] = IF CacheShouldRefresh THEN "enter" ELSE "lookup"]
    /\ UNCHANGED <<config, other, now, breaker, memory, system,
                   qname, retry, resp, idx, txRows, txNow, wake, result, got, history>>

\* refreshCache up to its loop: an open breaker returns at once until the
\* cooldown has passed since lastFailure, and is then closed and reset
RefreshCacheEnter(p) ==
    /\ pc[p] = "enter"
    /\ IF isOpen
       THEN IF BreakerBlocks
            THEN /\ pc' = [pc EXCEPT ![p] = "lookup"]
                 /\ outcome' = [outcome EXCEPT ![p] = "suppressed"]
                 /\ UNCHANGED <<isOpen, failureCount>>
            ELSE /\ isOpen' = FALSE
                 /\ failureCount' = 0
                 /\ pc' = [pc EXCEPT ![p] = "fetch"]
                 /\ UNCHANGED outcome
       ELSE /\ pc' = [pc EXCEPT ![p] = "fetch"]
            /\ UNCHANGED <<isOpen, failureCount, outcome>>
    /\ retry' = [retry EXCEPT ![p] = 0]
    /\ entered' = [entered EXCEPT ![p] =
            IF ~isOpen THEN "closed"
            ELSE IF now < lastFailure + Cooldown THEN "cooling" ELSE "cooled"]
    /\ UNCHANGED <<config, other, now, lastFailure, memory, system,
                   qname, resp, idx, txRows, txNow, wake, result, got,
                   fetchedNames, lastGood, atStart, dirty, fetches>>

\* one pass of the loop body: for retry := 0; retry < c.maxRetries; retry++
Fetch(p) ==
    /\ pc[p] = "fetch"
    /\ retry[p] < maxRetries
    /\ \E o \in FetchOutcomes, r \in 1..Len(Responses) :
        LET f == FetchFlags(o, r)
        IN  IF ~f.err
            THEN /\ failureCount' = 0
                 /\ resp' = [resp EXCEPT ![p] = f.resp]
                 /\ pc' = [pc EXCEPT ![p] = "store"]
                 /\ fetchedNames' = fetchedNames \cup DOMAIN RecordsOf(f.resp)
                 /\ UNCHANGED <<isOpen, lastFailure, wake, outcome>>
            ELSE /\ failureCount' = failureCount + 1
                 /\ resp' = [resp EXCEPT ![p] = NoResp]
                 /\ UNCHANGED fetchedNames
                 /\ IF BreakerTrips
                    THEN /\ isOpen' = TRUE
                         /\ lastFailure' = now
                         /\ pc' = [pc EXCEPT ![p] = "lookup"]
                         /\ outcome' = [outcome EXCEPT ![p] = f.kind]
                         /\ UNCHANGED wake
                    ELSE /\ pc' = [pc EXCEPT ![p] = "sleep"]
                         /\ wake' = [wake EXCEPT ![p] = now + retry[p] + 1]
                         /\ UNCHANGED <<isOpen, lastFailure, outcome>>
    /\ fetches' = [fetches EXCEPT ![p] = @ + 1]
    /\ UNCHANGED <<config, other, now, memory, system,
                   qname, retry, idx, txRows, txNow, result, got,
                   lastGood, atStart, dirty, entered>>

\* the loop ends with no response: if err != nil || apiResp == nil { return }
FetchGiveUp(p) ==
    /\ pc[p] = "fetch"
    /\ retry[p] >= maxRetries
    /\ pc' = [pc EXCEPT ![p] = "lookup"]
    /\ outcome' = [outcome EXCEPT ![p] = "exhausted"]
    /\ UNCHANGED <<config, other, now, breaker, memory, system,
                   qname, retry, resp, idx, txRows, txNow, wake, result, got,
                   fetchedNames, lastGood, atStart, dirty, entered, fetches>>

\* time.Sleep(time.Duration(retry+1) * time.Second) returns, and retry++
Wake(p) ==
    /\ pc[p] = "sleep"
    /\ now' = IF now >= wake[p] THEN now ELSE wake[p]
    /\ retry' = [retry EXCEPT ![p] = @ + 1]
    /\ pc' = [pc EXCEPT ![p] = "fetch"]
    /\ UNCHANGED <<config, other, breaker, memory, system,
                   qname, resp, idx, txRows, txNow, wake, result, got, history>>

\* Memory.Refresh: m.mu.Lock(); m.Flags = sync.Map{}
MemoryRefreshBegin(p) ==
    /\ pc[p] = "store"
    /\ backend = "memory"
    /\ memMu = 0
    /\ memMu' = p
    /\ memFlags' = NoFlags
    /\ idx' = [idx EXCEPT ![p] = 1]
    /\ pc' = [pc EXCEPT ![p] = "mstore"]
    /\ dirty' = Touch(p)
    /\ UNCHANGED <<config, other, now, breaker, memTTL, memNextRefresh, system,
                   qname, retry, resp, txRows, txNow, wake, result, got,
                   fetchedNames, lastGood, atStart, entered, fetches, outcome>>

\* Memory.Refresh: m.Flags.Store(f.Details.Name, f), one flag
MemoryRefreshStore(p) ==
    /\ pc[p] = "mstore"
    /\ idx[p] <= Len(Responses[resp[p]].flags)
    /\ LET f == Responses[resp[p]].flags[idx[p]]
       IN  memFlags' = (f.name :> f.enabled) @@ memFlags
    /\ idx' = [idx EXCEPT ![p] = @ + 1]
    /\ dirty' = Touch(p)
    /\ UNCHANGED <<config, other, now, breaker, memTTL, memNextRefresh, memMu, system,
                   pc, qname, retry, resp, txRows, txNow, wake, result, got,
                   fetchedNames, lastGood, atStart, entered, fetches, outcome>>

\* Memory.Refresh: cacheTTL, nextRefresh, the deferred unlock, return nil
MemoryRefreshEnd(p) ==
    /\ pc[p] = "mstore"
    /\ idx[p] > Len(Responses[resp[p]].flags)
    /\ memTTL' = Responses[resp[p]].interval
    /\ memNextRefresh' = now + Responses[resp[p]].interval
    /\ memMu' = MemoryUnlock(p)
    /\ pc' = [pc EXCEPT ![p] = "lookup"]
    /\ lastGood' = resp[p]
    /\ outcome' = [outcome EXCEPT ![p] = "stored"]
    /\ dirty' = Touch(p)
    /\ UNCHANGED <<config, other, now, breaker, memFlags, system,
                   qname, retry, resp, idx, txRows, txNow, wake, result, got,
                   fetchedNames, atStart, entered, fetches>>

\* System.deleteAllFlags: BEGIN; DELETE FROM flags; COMMIT, in a transaction
\* of its own.  With the write lock held elsewhere the DELETE waits for
\* busy_timeout and fails, the transaction is rolled back and Refresh
\* returns the error.  After it Refresh begins its second transaction,
\* prepares the INSERT and reads now.
SystemDeleteAllFlags(p) ==
    /\ pc[p] = "store"
    /\ backend = "system"
    /\ IF dbOpen /\ wlock = 0
       THEN /\ rows' = NoRows
            /\ txNow' = [txNow EXCEPT ![p] = now]
            /\ idx' = [idx EXCEPT ![p] = 1]
            /\ pc' = [pc EXCEPT ![p] = "sinsert"]
            /\ dirty' = Touch(p)
            /\ UNCHANGED outcome
       ELSE /\ pc' = [pc EXCEPT ![p] = "lookup"]
            /\ outcome' = [outcome EXCEPT ![p] = "storeErr"]
            /\ UNCHANGED <<rows, txNow, idx, dirty>>
    /\ txRows' = [txRows EXCEPT ![p] = NoRows]
    /\ UNCHANGED <<config, other, now, breaker, memory, meta, wlock, dbOpen,
                   qname, retry, resp, wake, result, got,
                   fetchedNames, lastGood, atStart, entered, fetches>>

\* System.Refresh: stmt.Exec(f.Details.Name, f.Enabled, now), one flag.  The
\* first write takes the write lock; a name already in the table breaks the
\* primary key.  Refresh returns on either error and never ends the
\* transaction, which keeps the lock it holds.
SystemInsert(p) ==
    /\ pc[p] = "sinsert"
    /\ idx[p] <= Len(Responses[resp[p]].flags)
    /\ LET f == Responses[resp[p]].flags[idx[p]]
       IN  IF wlock \notin {0, p}
           THEN /\ pc' = [pc EXCEPT ![p] = "lookup"]
                /\ outcome' = [outcome EXCEPT ![p] = "storeErr"]
                /\ UNCHANGED <<wlock, txRows, idx>>
           ELSE IF f.name \in DOMAIN rows \cup DOMAIN txRows[p]
                THEN /\ wlock' = Leaked
                     /\ pc' = [pc EXCEPT ![p] = "lookup"]
                     /\ outcome' = [outcome EXCEPT ![p] = "storeErr"]
                     /\ UNCHANGED <<txRows, idx>>
                ELSE /\ wlock' = p
                     /\ txRows' = [txRows EXCEPT ![p] =
                            (f.name :> [enabled |-> f.enabled, updated_at |-> txNow[p]]) @@ @]
                     /\ idx' = [idx EXCEPT ![p] = @ + 1]
                     /\ UNCHANGED <<pc, outcome>>
    /\ UNCHANGED <<config, other, now, breaker, memory, rows, meta, dbOpen,
                   qname, retry, resp, txNow, wake, result, got,
                   fetchedNames, lastGood, atStart, dirty, entered, fetches>>

\* System.Refresh: INSERT OR REPLACE INTO cache_metadata, then tx.Commit()
SystemCommit(p) ==
    /\ pc[p] = "sinsert"
    /\ idx[p] > Len(Responses[resp[p]].flags)
    /\ IF wlock \notin {0, p}
       THEN /\ outcome' = [outcome EXCEPT ![p] = "storeErr"]
            /\ UNCHANGED <<rows, meta, wlock, lastGood, dirty>>
       ELSE /\ rows' = txRows[p] @@ rows
            /\ meta' = ("next_refresh_time" :> IntegerValue(now + Responses[resp[p]].interval))
                       @@ ("cache_ttl" :> IntegerValue(Responses[resp[p]].interval))
            /\ wlock' = 0
            /\ lastGood' = resp[p]
            /\ outcome' = [outcome EXCEPT ![p] = "stored"]
            /\ dirty' = Touch(p)
    /\ pc' = [pc EXCEPT ![p] = "lookup"]
    /\ UNCHANGED <<config, other, now, breaker, memory, dbOpen,
                   qname, retry, resp, idx, txRows, txNow, wake, result, got,
                   fetchedNames, atStart, entered, fetches>>

\* isEnabled after the refresh: checkCache and the return, where the locals
\* of refreshCache and Refresh are gone
Lookup(p, n) ==
    /\ pc[p] = "lookup"
    /\ n \in names
    /\ qname' = [qname EXCEPT ![p] = n]
    /\ result' = [result EXCEPT ![p] = IsEnabledResult(n)]
    /\ pc' = [pc EXCEPT ![p] = "done"]
    /\ retry' = [retry EXCEPT ![p] = 0]
    /\ resp' = [resp EXCEPT ![p] = NoResp]
    /\ idx' = [idx EXCEPT ![p] = 0]
    /\ txRows' = [txRows EXCEPT ![p] = NoRows]
    /\ txNow' = [txNow EXCEPT ![p] = 0]
    /\ wake' = [wake EXCEPT ![p] = 0]
    /\ atStart' = [atStart EXCEPT ![p] = NoStart]
    /\ dirty' = [dirty EXCEPT ![p] = FALSE]
    /\ fetches' = [fetches EXCEPT ![p] = 0]
    /\ entered' = [entered EXCEPT ![p] = "no"]
    /\ outcome' = [outcome EXCEPT ![p] = "none"]
    /\ UNCHANGED <<config, other, now, breaker, memory, system, got, fetchedNames, lastGood>>

\* The host program lists the cache between two calls: Memory.GetAll, or
\* System.GetAll with its deferred db.Close(), which leaves the closed
\* handle in s.DB.  A panic ends the process.
GetAll(p) ==
    /\ callers = {p}
    /\ pc[p] = "done"
    /\ ~got.called
    /\ got' = IF backend = "memory" THEN MemoryGetAll ELSE SystemGetAll
    /\ dbOpen' = IF backend = "system" THEN FALSE ELSE dbOpen
    /\ UNCHANGED <<config, other, now, breaker, memory, rows, meta, wlock,
                   pc, qname, retry, resp, idx, txRows, txNow, wake, result, history>>

\* Is(name).Enabled() on the second client, between two calls on the
\* first, as a whole: its shouldRefreshCache, its refreshCache with the
\* fetches all failing or the first one returning response r, its Refresh
\* and its checkCache.  The second client has its own circuitState, its own
\* Memory, and with no SetFileName the same file /tmp/flags.db.
OtherCall ==
    /\ clients = 2
    /\ \A p \in Procs : pc[p] \in {"idle", "done"}
    /\ ~got.panic
    /\ other.calls < MaxOtherCalls
    /\ now <= MaxClock
    /\ IF ~OtherShouldRefresh \/ (other.isOpen /\ now - other.lastFailure < Cooldown)
       THEN /\ other' = [other EXCEPT !.calls = @ + 1]
            /\ UNCHANGED <<now, rows, meta, wlock, fetchedNames, lastGood>>
       ELSE \E ok \in BOOLEAN, r \in OtherResponses :
            IF ok /\ authOK
            THEN /\ UNCHANGED now
                 /\ IF backend = "memory"
                    THEN /\ other' = [other EXCEPT !.calls = @ + 1, !.isOpen = FALSE,
                                          !.failureCount = 0, !.flags = RecordsOf(r),
                                          !.nextRefresh = now + Responses[r].interval]
                         /\ UNCHANGED <<rows, meta, wlock, fetchedNames, lastGood>>
                    ELSE /\ other' = [other EXCEPT !.calls = @ + 1, !.isOpen = FALSE,
                                          !.failureCount = 0]
                         /\ IF wlock # 0
                            THEN UNCHANGED <<rows, meta, wlock, fetchedNames, lastGood>>
                            ELSE /\ rows' = [n \in DOMAIN RecordsOf(r) |->
                                        [enabled |-> RecordsOf(r)[n], updated_at |-> now]]
                                 /\ meta' = ("next_refresh_time" :>
                                                IntegerValue(now + Responses[r].interval))
                                            @@ ("cache_ttl" :> IntegerValue(Responses[r].interval))
                                 /\ fetchedNames' = fetchedNames \cup DOMAIN RecordsOf(r)
                                 /\ lastGood' = r
                                 /\ UNCHANGED wlock
            ELSE /\ now' = now + SleepTotal(maxRetries)
                 /\ other' = [other EXCEPT !.calls = @ + 1, !.isOpen = TRUE,
                                      !.failureCount = maxRetries,
                                      !.lastFailure = now + SleepTotal(maxRetries)]
                 /\ UNCHANGED <<rows, meta, wlock, fetchedNames, lastGood>>
    /\ UNCHANGED <<config, breaker, memory, dbOpen, locals,
                   atStart, dirty, entered, fetches, outcome>>

\* a second passes
Tick ==
    /\ now < MaxClock
    /\ now' = now + 1
    /\ UNCHANGED <<config, other, breaker, memory, system, locals, history>>

\* the host program lets the open breaker's cooldown pass, or all of it
\* but the last second
CooldownWait ==
    /\ isOpen
    /\ lastFailure + Cooldown <= Horizon
    /\ \E t \in {lastFailure + Cooldown - 1, lastFailure + Cooldown} :
        /\ t > now
        /\ now' = t
    /\ UNCHANGED <<config, other, breaker, memory, system, locals, history>>

Step(p) ==
    \/ ShouldRefresh(p)
    \/ RefreshCacheEnter(p)
    \/ Fetch(p)
    \/ FetchGiveUp(p)
    \/ Wake(p)
    \/ MemoryRefreshBegin(p)
    \/ MemoryRefreshStore(p)
    \/ MemoryRefreshEnd(p)
    \/ SystemDeleteAllFlags(p)
    \/ SystemInsert(p)
    \/ SystemCommit(p)
    \/ \E n \in QueryNames : Lookup(p, n)
    \/ GetAll(p)

Next ==
    \/ \E p \in Procs : Call(p)
    \/ \E p \in Procs : Step(p)
    \/ OtherCall
    \/ Tick
    \/ CooldownWait

Spec == Init /\ [][Next]_vars

\* The program that only polls: one goroutine that calls Is(name).Enabled()
\* again and again on one client, which no other client shares, with no
\* call of GetAll.
LiveInit ==
    /\ Init
    /\ callers = {1}
    /\ clients = 1
    /\ env = NoEnv

\* the steps of Is(name).Enabled()
PollStep(p) ==
    \/ ShouldRefresh(p)
    \/ RefreshCacheEnter(p)
    \/ Fetch(p)
    \/ FetchGiveUp(p)
    \/ Wake(p)
    \/ MemoryRefreshBegin(p)
    \/ MemoryRefreshStore(p)
    \/ MemoryRefreshEnd(p)
    \/ SystemDeleteAllFlags(p)
    \/ SystemInsert(p)
    \/ SystemCommit(p)
    \/ \E n \in QueryNames : Lookup(p, n)

LiveNext ==
    \/ \E p \in Procs : Call(p)
    \/ \E p \in Procs : PollStep(p)
    \/ Tick
    \/ CooldownWait

\* The caller keeps calling, the Go scheduler runs every goroutine that can
\* run, and time passes.
LiveSpec ==
    /\ LiveInit
    /\ [][LiveNext]_vars
    /\ \A p \in Procs : WF_vars(Call(p)) /\ WF_vars(PollStep(p))
    /\ WF_vars(Tick)
    /\ WF_vars(CooldownWait)

(***************************************************************************)
(* Properties                                                              *)
(***************************************************************************)
\* the environment variables, prefixed, one of whose keys is the name
Overriding(name) == {v \in PrefixedVars(env) : name \in OverrideKeys(v)}

NoOverride(name) == Overriding(name) = {}

\* the value a record set holds for a name, false when it holds none
ValueIn(recs, name) == name \in DOMAIN recs /\ recs[name]

\* C1: a call for a name that no fetched response has carried and that no
\* override matches returns false.
C1_NeverFetchedIsFalse ==
    \A p \in Procs :
        (pc[p] = "done" /\ qname[p] \notin fetchedNames /\ NoOverride(qname[p]))
            => result[p] = FALSE

\* a call has returned false for a name the refreshed cache does not hold
C1_Witness ==
    /\ pc[1] = "done"
    /\ qname[1] = NameOther
    /\ fetchedNames = {NameHyphen}
    /\ lastGood # NoResp
    /\ result[1] = FALSE

\* C2 as stated: while the last successful refresh has not expired, a call
\* for a name of its response returns the value of that response.
C2_ServesLastRefresh ==
    [][\A p \in Procs :
        (/\ pc[p] = "lookup" /\ pc'[p] = "done"
         /\ lastGood # NoResp
         /\ now <= VisibleDeadline
         /\ qname'[p] \in DOMAIN RecordsOf(lastGood)
         /\ NoOverride(qname'[p]))
            => result'[p] = RecordsOf(lastGood)[qname'[p]]]_vars

SnapshotOf(r) == IF r = NoResp THEN NoFlags ELSE RecordsOf(r)

\* the ends of a refresh cycle that stored nothing because no fetch succeeded
FetchFailures == {"transport", "status", "decode", "credentials", "exhausted"}

\* C5 as stated: when the store's Refresh has returned an error, the store
\* holds the records and the deadline it held before the call (no other
\* goroutine having written meanwhile).
C5_FailedRefreshKeepsStore ==
    \A p \in Procs :
        (pc[p] = "lookup" /\ outcome[p] = "storeErr" /\ ~dirty[p])
            => /\ VisibleRecs = atStart[p].recs
               /\ VisibleDeadline = atStart[p].deadline

\* C6: a refresh attempt that finds the breaker open before the cooldown has
\* elapsed makes no fetch; one that finds it open after the cooldown has
\* elapsed closes it, restarts the failure count from zero and starts one
\* sequence of at most maxRetries fetches.
C6_CircuitBreaker ==
    /\ [](\A p \in Procs :
            /\ entered[p] = "cooling" => fetches[p] = 0 /\ pc[p] = "lookup"
            /\ entered[p] = "cooled" => fetches[p] <= maxRetries)
    /\ [][\A p \in Procs :
            (/\ pc[p] = "enter" /\ pc'[p] # "enter"
             /\ isOpen /\ now >= lastFailure + Cooldown)
                => /\ ~isOpen' /\ failureCount' = 0
                   /\ pc'[p] = "fetch" /\ retry'[p] = 0 /\ fetches'[p] = 0
                   /\ retry'[p] < maxRetries]_vars

\* an attempt started once the cooldown had elapsed has fetched and stored
C6_Witness ==
    /\ pc[1] = "lookup"
    /\ entered[1] = "cooled"
    /\ outcome[1] = "stored"
    /\ fetches[1] >= 1
    /\ isOpen = FALSE

\* C7 as stated: a call that reads the cache while a Refresh is writing it
\* returns the value of the name in the snapshot before that Refresh or in
\* the snapshot it is writing.
C7_ReadersSeeWholeSnapshots ==
    [][\A p \in Procs :
        (/\ pc[p] = "lookup" /\ pc'[p] = "done"
         /\ Writing # {}
         /\ NoOverride(qname'[p]))
            => result'[p] \in
                {ValueIn(SnapshotOf(lastGood), qname'[p])}
                \cup {ValueIn(RecordsOf(resp[q]), qname'[p]) : q \in Writing}]_vars

\* C8: a call whose refresh cycle was suppressed by the breaker, or ended on
\* a fetch failure of any kind, returns the value the cache held for the
\* name before the cycle, and false when it held none.
C8_FailedCycleServesCache ==
    [][\A p \in Procs :
        (/\ pc[p] = "lookup" /\ pc'[p] = "done"
         /\ outcome[p] \in FetchFailures \cup {"suppressed"}
         /\ ~dirty[p]
         /\ NoOverride(qname'[p]))
            => result'[p] = ValueIn(atStart[p].recs, qname'[p])]_vars

\* a call whose cycle has just tripped the breaker has returned the true of
\* an expired record
C8_Witness ==
    /\ callers = {1}
    /\ env = NoEnv
    /\ pc[1] = "done"
    /\ isOpen /\ lastFailure = now
    /\ now > VisibleDeadline
    /\ qname[1] = NameHyphen
    /\ result[1] = TRUE

\* C10 as stated: the records the store shows are the records of the
\* refresh that set the deadline the store shows.
C10_DeadlineGovernsRecords ==
    lastGood # NoResp => VisibleRecs = RecordsOf(lastGood)

(***************************************************************************)
(* Progress.  A call returns when it is never left without a step to take  *)
(* and its steps cannot go on for ever: each lowers Rank, a natural number.*)
(***************************************************************************)
\* the longest flag list the remote authority serves
MaxFlags == CHOOSE n \in 0..10 :
    /\ \A r \in 1..Len(Responses) : Len(Responses[r].flags) <= n
    /\ \E r \in 1..Len(Responses) : Len(Responses[r].flags) = n

\* the steps a call may still take from where it is, at most
Rank(p) ==
    LET storing == MaxFlags + 3
        looping == 2 * maxRetries + 1
    IN  CASE pc[p] \in {"idle", "done"} -> 0
          [] pc[p] = "lookup" -> 1
          [] pc[p] \in {"mstore", "sinsert"} -> MaxFlags + 3 - idx[p]
          [] pc[p] = "store" -> storing
          [] pc[p] = "sleep" -> storing + 2 * (maxRetries - retry[p])
          [] pc[p] = "fetch" -> storing + 2 * (maxRetries - retry[p]) + 1
          [] pc[p] = "enter" -> storing + looping + 1
          [] pc[p] = "should" -> storing + looping + 2

\* the goroutine, another one, whose Refresh holds the mutex p waits for
HolderBefore(p) ==
    IF backend = "memory" /\ pc[p] \in {"should", "store"} /\ memMu \notin {0, p}
    THEN {memMu}
    ELSE {}

\* a step of p's call, told by what it changes: every action of Step(p)
\* moves p or stores one more flag, and Call alone moves p to "should"
Advances(p) ==
    /\ pc'[p] # pc[p] \/ idx'[p] # idx[p]
    /\ pc'[p] # "should"

\* C9: every call returns.  A call in progress can take a step, or waits
\* for the mutex of a Refresh that can take one; and every step of a call
\* lowers its rank, whatever the fetches end in.
C9_EveryCallReturns ==
    /\ [](\A p \in Procs :
            pc[p] \notin {"idle", "done"}
                => \/ ENABLED Step(p)
                   \/ \E q \in HolderBefore(p) : pc[q] = "mstore" /\ ENABLED Step(q))
    /\ [](\A p \in Procs : Rank(p) \in Nat)
    /\ [][\A p \in Procs : Advances(p) => Rank(p)' < Rank(p)]_vars

\* a call waits for the mutex that a Refresh of another goroutine holds
C9_Witness ==
    /\ pc[2] = "should"
    /\ memMu = 1
    /\ pc[1] = "mstore"

\* the goroutines whose Refresh has returned nil and that have not yet
\* read the cache
Stored == {p \in Procs : pc[p] = "lookup" /\ outcome[p] = "stored"}

\* C11 as stated: when the Refresh calls of two goroutines have both
\* returned, the store holds exactly the records of one of the two, the
\* one whose deadline it holds.
C11_LastWriterWins ==
    \A p, q \in Stored :
        p # q => /\ VisibleRecs \in {RecordsOf(resp[p]), RecordsOf(resp[q])}
                 /\ VisibleRecs = RecordsOf(lastGood)

\* C12 as stated: when the fetch of a refresh cycle has succeeded, the cache
\* holds exactly the records of that response, under a deadline set by the
\* cycle from the response's interval (no other goroutine having written
\* meanwhile).
C12_WholesaleReplace ==
    \A p \in Procs :
        (pc[p] = "lookup" /\ resp[p] # NoResp /\ ~dirty[p])
            => /\ VisibleRecs = RecordsOf(resp[p])
               /\ VisibleDeadline > atStart[p].deadline
               /\ VisibleDeadline <= now + Responses[resp[p]].interval

\* C13: shouldRefresh is true exactly when now is past the stored deadline
\* (always, with no deadline stored).  A successful refresh with interval I
\* at time t stores the deadline t + I, so shouldRefresh is false up to and
\* including t + I and true after.  A call that finds the cache fresh goes
\* to the cache read with no refresh cycle and no fetch; one that finds it
\* expired enters refreshCache.
C13_FreshnessRule ==
    /\ [](CacheShouldRefresh <=> now > VisibleDeadline)
    /\ [][\A p \in Procs :
            /\ (outcome'[p] = "stored" /\ outcome[p] # "stored")
                  => VisibleDeadline' = now + Responses[resp[p]].interval
            /\ (pc[p] = "should" /\ pc'[p] # "should")
                  => IF now <= VisibleDeadline
                     THEN pc'[p] = "lookup" /\ entered'[p] = "no" /\ fetches'[p] = 0
                     ELSE pc'[p] = "enter"]_vars
    /\ [](\A p \in Procs : entered[p] = "no" => fetches[p] = 0)

\* a call made exactly at the deadline of an earlier refresh has found the
\* cache fresh
C13_Witness ==
    \E p \in Procs :
        /\ pc[p] = "lookup"
        /\ entered[p] = "no"
        /\ lastGood # NoResp
        /\ now = VisibleDeadline

\* C14 as stated: a client no goroutine has called yet holds an empty
\* snapshot under a deadline in the past, its shouldRefresh is true, and the
\* first call, of a goroutine that calls once, enters refreshCache.
C14_NewClientRefreshes ==
    /\ []((\A p \in Procs : pc[p] = "idle")
            => /\ VisibleRecs = NoFlags
               /\ VisibleDeadline < now
               /\ CacheShouldRefresh)
    /\ [][\A p \in Procs \ Pollers :
            (pc[p] = "should" /\ pc'[p] # "should" /\ \A q \in Procs \ {p} : pc[q] = "idle")
                => pc'[p] = "enter"]_vars

\* C15 as stated: with the store holding the records of the last
\* successful refresh, getAll returns, with no panic and no error, one
\* record per name of these records with its enabled value.
C15_GetAllReturnsSnapshot ==
    [][(got'.called /\ ~got.called /\ lastGood # NoResp /\ VisibleRecs = RecordsOf(lastGood))
          => /\ ~got'.panic
             /\ ~got'.err
             /\ got'.flags = RecordsOf(lastGood)]_vars

\* what Get(name) returns on a store that holds the records recs
GetOf(recs, name) ==
    IF name \in DOMAIN recs
    THEN [enabled |-> recs[name], found |-> TRUE]
    ELSE [enabled |-> FALSE, found |-> FALSE]

\* C16 as stated: the two backends answer alike.  Under one goroutine, when
\* Refresh has been called with a fetched response, Get answers for every
\* name from the records of that response, whichever the backend, and a
\* GetAll answers with the records that Get answers from.
C16_BackendsAgree ==
    /\ [](\A p \in Procs :
            (callers = {p} /\ pc[p] = "lookup" /\ resp[p] # NoResp)
                => \A n \in QueryNames : CacheGet(n) = GetOf(RecordsOf(resp[p]), n))
    /\ [][(got'.called /\ ~got.called)
            => got' = [called |-> TRUE, panic |-> FALSE, err |-> FALSE, flags |-> VisibleRecs]]_vars

\* C17 as stated: with an identifier missing, a refresh cycle calls
\* fetchFlags once, never sleeps for backoff, gets no response and leaves
\* the cache as the call found it.
C17_MissingCredentialIsFatal ==
    ~authOK =>
        \A p \in Procs :
            /\ fetches[p] <= 1
            /\ pc[p] # "sleep"
            /\ resp[p] = NoResp
            /\ (pc[p] \notin {"idle", "done"} /\ ~dirty[p])
                  => (VisibleRecs = atStart[p].recs /\ VisibleDeadline = atStart[p].deadline)

\* C18: NewClient leaves the defaults, the fixed base URL and 3 retries,
\* where no option is given, WithBaseURL(u) and WithMaxRetries(n) set the
\* base URL to u and the retry ceiling to n, and no step of any call, refresh
\* cycle or breaker transition changes base URL, retry ceiling or credentials.
C18_ConfigurationIsFixed ==
    /\ [](opts = NoOptions => (baseURL = DefaultBaseURL /\ maxRetries = DefaultMaxRetries))
    /\ [](\A u \in {DefaultBaseURL, CustomURL}, n \in 0..CustomRetries :
            opts = <<[kind |-> "WithBaseURL", value |-> u], [kind |-> "WithMaxRetries", value |-> n]>>
                => (baseURL = u /\ maxRetries = n))
    /\ [][<<baseURL, maxRetries, authOK>>' = <<baseURL, maxRetries, authOK>>]_vars

\* a client built with both options has gone through a whole refresh cycle
\* that opened the breaker
C18_Witness ==
    /\ opts = CustomOptions
    /\ baseURL = CustomURL
    /\ isOpen
    /\ failureCount = CustomRetries
    /\ \E p \in Procs : pc[p] = "done"

\* C19 as stated: in the state right after a fetchFlags call has returned
\* a response, failureCount is 0 and the breaker is closed.
C19_SuccessClosesBreaker ==
    [][\A p \in Procs :
          (pc[p] = "fetch" /\ pc'[p] = "store") => (failureCount' = 0 /\ ~isOpen')]_vars

\* C20 as stated: a refresh cycle calls fetchFlags at most maxRetries
\* times and not again once a call has returned a response; it sleeps after a
\* failed attempt only, for the attempt's index plus one seconds, only when
\* another attempt of the cycle follows, and not when the attempt has opened
\* the breaker.
C20_RetryLoop ==
    [][\A p \in Procs :
          /\ fetches'[p] <= maxRetries
          /\ pc[p] \in {"store", "mstore", "sinsert"} => fetches'[p] <= fetches[p]
          /\ pc'[p] = "sleep" /\ pc[p] # "sleep"
                => /\ pc[p] = "fetch"
                   /\ resp'[p] = NoResp
                   /\ wake'[p] = now + retry[p] + 1
                   /\ retry[p] + 1 < maxRetries
                   /\ isOpen' = isOpen]_vars

\* C21 as stated: the breaker is open only with maxRetries consecutive
\* failed fetches counted since the last success or reset, it is open
\* whenever the count has reached maxRetries, and the step that takes the
\* count to maxRetries opens it and sets lastFailure to the time of that
\* failure.
C21_OpensAtThreshold ==
    /\ [](isOpen => failureCount >= maxRetries)
    /\ [](failureCount >= maxRetries => isOpen)
    /\ [][(~isOpen /\ isOpen') => (failureCount' >= maxRetries /\ lastFailure' = now)]_vars
    /\ [][(failureCount < maxRetries /\ failureCount' >= maxRetries)
            => (isOpen' /\ lastFailure' = now)]_vars

\* C22: a refresh cycle that finds the breaker open before the cooldown has
\* passed since lastFailure returns in one step, with no fetch, and leaves
\* the cached records, the deadline, isOpen, failureCount and lastFailure
\* as they were.
C22_OpenBreakerCycleIsNoOp ==
    [][\A p \in Procs :
          (pc[p] = "enter" /\ pc'[p] # "enter" /\ isOpen /\ now - lastFailure < Cooldown)
              => /\ pc'[p] = "lookup"
                 /\ fetches'[p] = 0
                 /\ resp'[p] = NoResp
                 /\ VisibleRecs' = VisibleRecs
                 /\ VisibleDeadline' = VisibleDeadline
                 /\ UNCHANGED <<memory, system>>
                 /\ UNCHANGED <<isOpen, failureCount, lastFailure>>]_vars

\* a cycle has been suppressed over a cache that holds records
C22_Witness ==
    \E p \in Procs :
        /\ pc[p] = "lookup"
        /\ outcome[p] = "suppressed"
        /\ isOpen
        /\ VisibleRecs # NoFlags

\* C23: the breaker changes only in steps of refreshCache.  The steps of
\* the read path (the start of Enabled, shouldRefreshCache, checkCache with
\* the override lookup and the return, a GetAll of the host) leave isOpen,
\* failureCount and lastFailure as they are, and a call that finds the cache
\* fresh goes from shouldRefreshCache to checkCache without refreshCache.
C23_ReadPathLeavesBreaker ==
    /\ [][\A p \in Procs :
            (pc[p] \in {"idle", "done", "should", "lookup"} /\ <<pc[p], got>>' # <<pc[p], got>>)
                => UNCHANGED <<isOpen, failureCount, lastFailure>>]_vars
    /\ [][\A p \in Procs :
            (pc[p] = "should" /\ pc'[p] # "should" /\ now <= VisibleDeadline)
                => (pc'[p] = "lookup" /\ UNCHANGED <<isOpen, failureCount, lastFailure>>)]_vars
    /\ [][<<isOpen, failureCount, lastFailure>>' # <<isOpen, failureCount, lastFailure>>
            => \E p \in Procs : pc[p] \in {"enter", "fetch"} /\ pc'[p] # pc[p]]_vars

\* a call has found the persistent cache fresh while failures are counted
C23_Witness ==
    \E p \in Procs :
        /\ backend = "system"
        /\ pc[p] = "lookup"
        /\ entered[p] = "no"
        /\ lastGood # NoResp
        /\ failureCount > 0

\* C24: a goroutine that sleeps in the backoff of refreshCache holds
\* neither the cache's mutex nor the database's write lock and has no
\* transaction open, and another goroutine's shouldRefreshCache and
\* checkCache can run at once: if one waits, it waits for a Refresh that is
\* storing, never for the sleeper.
C24_SleepHoldsNothing ==
    \A p \in Procs :
        pc[p] = "sleep"
            => /\ memMu # p
               /\ wlock # p
               /\ txRows[p] = NoRows
               /\ \A q \in Procs \ {p} :
                    /\ pc[q] = "should"
                          => \/ ENABLED ShouldRefresh(q)
                             \/ memMu # 0 /\ memMu # p /\ pc[memMu] = "mstore"
                    /\ pc[q] = "lookup" => ENABLED (\E n \in QueryNames : Lookup(q, n))

\* one goroutine reads the cache, which holds records, while the other
\* sleeps between two attempts
C24_Witness ==
    /\ pc[1] = "sleep"
    /\ pc[2] = "lookup"
    /\ entered[2] = "no"
    /\ VisibleRecs # NoFlags

\* the persistent cache's deadline cannot be determined: the handle is
\* closed, there is no next_refresh_time row, or its value is no integer
DeadlineUnknown ==
    /\ backend = "system"
    /\ \/ ~dbOpen
       \/ "next_refresh_time" \notin DOMAIN meta
       \/ meta["next_refresh_time"].kind # "integer"

\* C25: whenever the deadline cannot be determined shouldRefresh is true,
\* and a call that asks then goes on to refreshCache.
C25_ShouldRefreshFailsOpen ==
    /\ [](DeadlineUnknown => CacheShouldRefresh)
    /\ [][\A p \in Procs :
            (DeadlineUnknown /\ pc[p] = "should" /\ pc'[p] # "should") => pc'[p] = "enter"]_vars

\* a call has asked over a deadline stored as RFC3339 text
C25_Witness ==
    /\ backend = "system"
    /\ dbOpen
    /\ "next_refresh_time" \in DOMAIN meta
    /\ meta["next_refresh_time"].kind = "text"
    /\ pc[1] = "enter"

\* C26 as stated: no step of one client changes the records, the deadline
\* or the breaker that the other client sees.
C26_ClientsAreIndependent ==
    /\ [][other.calls' # other.calls
            => /\ VisibleRecs' = VisibleRecs
               /\ VisibleDeadline' = VisibleDeadline
               /\ UNCHANGED <<isOpen, failureCount, lastFailure>>]_vars
    /\ [][(clients = 2 /\ other.calls' = other.calls)
            => /\ OtherRecs' = OtherRecs
               /\ OtherDeadline' = OtherDeadline
               /\ other' = other]_vars

\* C27 as stated: the persistent backend's Get finds no record whose age,
\* now minus updated_at, is above the stored cache_ttl, and returns the
\* stored value of a record younger than cache_ttl.
C27_GetRejectsStaleRows ==
    (backend = "system" /\ dbOpen /\ "cache_ttl" \in DOMAIN meta)
        => \A n \in DOMAIN rows :
              LET age == now - rows[n].updated_at
                  ttl == CastInteger(meta["cache_ttl"])
              IN  /\ age > ttl => ~SystemGet(n).found
                  /\ age < ttl => SystemGet(n) = [enabled |-> rows[n].enabled, found |-> TRUE]

\* C28 as stated: in every reachable state, under any interleaving of
\* concurrent refresh cycles on one client, 0 <= failureCount <= maxRetries.
C28_FailureCountBounded ==
    failureCount \in 0..maxRetries

\* C30 as stated: GetAll on the persistent backend is a pure read.  It
\* leaves the stored records, the metadata and the usability of the
\* database handle unchanged, so Get and ShouldRefreshCache answer after
\* it as they did before it.
C30_GetAllIsPureRead ==
    [][(backend = "system" /\ got'.called /\ ~got.called)
          => /\ rows' = rows
             /\ meta' = meta
             /\ dbOpen' = dbOpen
             /\ SystemShouldRefreshCache' = SystemShouldRefreshCache
             /\ \A n \in CacheNames : SystemGet(n)' = SystemGet(n)]_vars

\* a fetch of p ends in an error
FetchFails(p) == pc[p] = "fetch" /\ retry[p] < maxRetries /\ pc'[p] \in {"sleep", "lookup"}

\* a Refresh of p returns an error
StoreFails(p) == outcome[p] # "storeErr" /\ outcome'[p] = "storeErr"

\* the cache holds exactly the records of the last response the remote
\* gave, under a deadline that has not passed, and the breaker is closed
Refreshed ==
    /\ lastGood # NoResp
    /\ VisibleRecs = RecordsOf(lastGood)
    /\ ~CacheShouldRefresh
    /\ ~isOpen

\* the clock of the model has run out: no call is started any more, and no
\* cooldown is left to wait for
OutOfTime ==
    /\ now > MaxClock
    /\ ~(isOpen /\ now - lastFailure >= Cooldown - 1)
    /\ ~(isOpen /\ lastFailure + Cooldown <= Horizon /\ lastFailure + Cooldown > now)

\* C29 as stated: if from some point on every fetch succeeds and every
\* storage write succeeds, while the caller keeps calling and time passes,
\* then the breaker does not stay open and the cache comes to hold exactly
\* the records of the remote's response, with ShouldRefreshCache false up
\* to the new deadline (as long as the clock has not run out).
C29_RefreshIsLive ==
    <>[][\A p \in Procs : ~FetchFails(p) /\ ~StoreFails(p)]_vars
        => <>[](Refreshed \/ OutOfTime)

\* C29 amended: the same for a client whose retry ceiling allows an
\* attempt, maxRetries >= 1.
C29_RefreshIsLiveWithAttempts ==
    (maxRetries >= 1 /\ <>[][\A p \in Procs : ~FetchFails(p) /\ ~StoreFails(p)]_vars)
        => <>[](Refreshed \/ OutOfTime)

\* the breaker had opened, its cooldown has passed, and a later cycle has
\* closed it and stored the response it fetched
C29_Witness ==
    /\ maxRetries >= 1
    /\ lastFailure > 0
    /\ now >= lastFailure + Cooldown
    /\ Refreshed
    /\ pc[1] = "done"

\* C31 as stated: every transaction that System.Refresh begins is committed
\* or rolled back before Refresh returns, on every path, so the write lock
\* is held only by a goroutine that is inside Refresh, and no transaction
\* left open blocks or fails a later Refresh.
C31_TransactionsAreEnded ==
    \/ wlock = 0
    \/ wlock \in Procs /\ pc[wlock] = "sinsert"

\* C32 as stated: when the fetch of a cycle has succeeded and the store's
\* Refresh has returned an error, the cycle ends with failureCount = 0 and
\* the breaker closed, the snapshot and the expired deadline from before
\* the cycle are in place (no other goroutine having written meanwhile),
\* and so the next call refreshes again: ShouldRefreshCache is true and
\* the breaker lets the cycle through.
C32_StorageFailureSparesBreaker ==
    \A p \in Procs :
        (pc[p] = "lookup" /\ outcome[p] = "storeErr" /\ ~dirty[p])
            => /\ failureCount = 0
               /\ ~isOpen
               /\ VisibleRecs = atStart[p].recs
               /\ VisibleDeadline = atStart[p].deadline
               /\ CacheShouldRefresh
               /\ ~BreakerBlocks

\* C33 as stated: with WithMaxRetries(n), n <= 0, no refresh cycle fetches,
\* the breaker never opens, the cache is never written and stays empty with
\* its deadline in the past, and every call for a name without an override
\* returns false.
C33_NoAttemptsNoCache ==
    /\ [](maxRetries <= 0
            => /\ \A p \in Procs : fetches[p] = 0
               /\ ~isOpen
               /\ failureCount = 0
               /\ VisibleRecs = NoFlags
               /\ VisibleDeadline < now
               /\ \A p \in Procs :
                    (pc[p] = "done" /\ NoOverride(qname[p])) => result[p] = FALSE)
    /\ [][maxRetries <= 0
            => UNCHANGED <<memFlags, memNextRefresh, rows, meta>>]_vars

====
